---- MODULE Spec2Model ----
(***************************************************************************)
(* Model of the NovinPythonBridge C shim (NovinPythonBridge.c): the five   *)
(* file-scope statics, the embedded interpreter as far as the shim can     *)
(* observe it (initialized flag, interpreter lock, live collaborator       *)
(* objects, raw buffers), and the four exported functions executed by      *)
(* host threads, one labelled step per stretch of code that runs without   *)
(* giving up the interpreter lock.                                         *)
(*                                                                         *)
(* C strings are TLA+ strings; a NULL char pointer is the value NullStr.   *)
(* pythonPath is a sequence of one-character strings so that strtok_r can  *)
(* be modelled; a NULL pythonPath is the value NullPath. The str the       *)
(* collaborator returns is the sequence of its UTF-8 bytes so that strdup  *)
(* can be modelled.                                                        *)
(***************************************************************************)
EXTENDS Integers, Sequences, FiniteSets, TLC

\* ------------------------------------------------------------------ bounds
\* successful interpreter start-ups explored (initialize ... finalize cycles)
MaxInits == 2
\* raw buffers PyMem_RawMalloc can hand out before Py_DecodeLocale must fail
MaxBufs == 1

\* ------------------------------------------------------------- vocabulary
Threads == {"t1", "t2"}
NoThread == "none"

NullStr == "<NULL>"
NullPath == <<"<NULL>">>
NULL == 0

\* Inputs the host passes.
PythonHomes == {NullStr, "", "/h"}
PythonPaths == {NullPath, <<>>, <<":">>, <<"a", ":", "b">>,
                <<"a", ":", ":", "b">>, <<":", "a", "b", ":">>,
                <<"b", ":", "a", ":", "c">>}
RequestJsons == {"{req}"}
ClientIds == {NullStr, "acme"}
BrandConfigs == {NullStr, "", "{A}"}

\* The messages process_request duplicates into *errorOut.
MsgNotInitialized == "Python runtime not initialized"
MsgBridgeInitFailed == "Failed to initialize NovinAIBridge"
MsgMethodMissing == "NovinAIBridge missing process_request"
MsgProcessingFailed == "Python processing failed"
MsgEncodingFailed == "Failed to convert Python result to UTF-8"
MsgOutOfMemory == "Out of memory duplicating response"
DefaultClientId == "ios-client"

\* A Python str is the sequence of its UTF-8 bytes, one-character strings with
\* Nul for the zero byte (U+0000); a C string is a TLA+ string.
Nul == "<0>"
\* PyObject *result: NULL, or an object that is not a str.
NoResult == <<"<NULL>">>
NotAStr == <<"<not-str>">>
\* The strs the collaborator's process_request can hand back.
PyResults == {<<"{", "o", "k", "}">>, <<"{", Nul, "}">>, <<>>}
\* A thread that has built no Python call.
NoCall == [args |-> <<>>, result |-> NoResult]

\* What a thread's errorOut slot / return value hold outside a call.
Untouched == "<untouched>"
NoRet == "<none>"
\* initialize's bool result.
RetTrue == "true"
RetFalse == "false"
\* finalize returns void.
RetVoid == "void"

VARIABLES
  s_pythonInitialized,    \* static bool
  s_novinBridgeInstance,  \* static PyObject *: NULL or an object id
  s_pythonHomeW,          \* static wchar_t *: NULL or a raw buffer id
  s_pythonPathW,          \* static wchar_t *: NULL or a raw buffer id
  s_mainThreadState,      \* static PyThreadState *: NoThread or the thread saved
  pyIsInitialized,        \* Py_IsInitialized()
  gil,                    \* the thread holding the interpreter lock, or NoThread
  gilstateCounter,        \* per thread: PyGILState_Ensure nesting depth
  yielded,                \* threads that handed the lock over inside collaborator code
  liveObjs,               \* collaborator instances alive in the interpreter
  ctorArgs,               \* per live instance: the tuple its constructor received
  rawBufs,                \* raw buffers allocated and not freed
  config,                 \* the PyConfig on initialize's stack
  decodedIdx,             \* the pythonPath tokens Py_DecodeLocale succeeded on
  inits,                  \* successful interpreter start-ups so far
  firstConfig,            \* history: brandConfigJson of the first call since
                          \* initialize (kept by SpecFirstCall only)
  pc,                     \* per thread: position in the exported function
  args,                   \* per thread: arguments of the call in progress
  gilState,               \* per thread: the PyGILState_STATE local
  ret,                    \* per thread: value returned by the finished call
  err,                    \* per thread: what *errorOut holds
  call                    \* per thread: the Python call built (args tuple, result)

statics == <<s_pythonInitialized, s_novinBridgeInstance, s_pythonHomeW,
             s_pythonPathW, s_mainThreadState>>
interp == <<pyIsInitialized, gil, gilstateCounter, yielded, liveObjs,
            ctorArgs, rawBufs, config, decodedIdx, inits, firstConfig>>
locals == <<pc, args, gilState, ret, err, call>>
vars == <<statics, interp, locals>>

NoArgs == [pythonHome |-> NullStr, pythonPath |-> NullPath,
           requestJson |-> NullStr, clientId |-> NullStr,
           brandConfigJson |-> NullStr, errorOut |-> FALSE]
\* No process_request call went past line 152 since the runtime was initialized.
NoFirstCall == "<no call yet>"
NoConfig == [home |-> NULL, module_search_paths |-> <<>>]

InitPcs == {"init_home", "init_path", "init_start", "init_save"}
FinPcs == {"fin_restore", "fin_decref", "fin_pyfinalize", "fin_flag", "fin_free"}
PrPcs == {"pr_gil", "ens_import", "ens_ctor", "ens_failed",
          "pr_getattr", "pr_call", "pr_convert"}
RetPcs == {"init_ret", "pr_ret", "fin_ret"}
\* Between calls: the thread is in none of the exported functions.
Outside(t) == pc[t] \in {"idle"} \cup RetPcs

Init ==
  /\ s_pythonInitialized = FALSE
  /\ s_novinBridgeInstance = NULL
  /\ s_pythonHomeW = NULL
  /\ s_pythonPathW = NULL
  /\ s_mainThreadState = NoThread
  /\ pyIsInitialized = FALSE
  /\ gil = NoThread
  /\ gilstateCounter = [t \in Threads |-> 0]
  /\ yielded = {}
  /\ liveObjs = {}
  /\ ctorArgs = <<>>
  /\ rawBufs = {}
  /\ config = NoConfig
  /\ decodedIdx = {}
  /\ inits = 0
  /\ firstConfig = NoFirstCall
  /\ pc = [t \in Threads |-> "idle"]
  /\ args = [t \in Threads |-> NoArgs]
  /\ gilState = [t \in Threads |-> "none"]
  /\ ret = [t \in Threads |-> NoRet]
  /\ err = [t \in Threads |-> Untouched]
  /\ call = [t \in Threads |-> NoCall]

\* The host serializes lifecycle calls with every other call (spec section 5):
\* initialize and finalize run only while no other thread is inside the bridge,
\* and nothing else starts while one of them runs.
NoLifecycleCall == \A u \in Threads : pc[u] \notin InitPcs \cup FinPcs
OthersOutside(t) == \A u \in Threads \ {t} : Outside(u)

\* strdup(msg) stored through errorOut: the copy, or NULL when malloc fails.
Strdup(s, memOk) == IF memOk THEN s ELSE NullStr
\* if (errorOut) *errorOut = strdup(msg);  (old: what the slot held before)
WriteError(slot, msg, memOk, old) == IF slot THEN Strdup(msg, memOk) ELSE old

\* ------------------------------------------------- interpreter primitives
\* PyGILState_Ensure: PyGILState_LOCKED when the caller already holds the lock,
\* otherwise it takes the lock and answers PyGILState_UNLOCKED.
PyGILState_Ensure(t) == IF gil = t THEN "LOCKED" ELSE "UNLOCKED"
\* The lock is not taken: its holder stays who it was.
PyGILState_Ensure_Skipped(t) == gil
\* PyGILState_Ensure: the lock holder afterwards.
PyGILState_Ensure_Holder(t) == t
\* A release that is forgotten: the caller keeps the lock.
PyGILState_Release_Forgotten(t, st) == gil
\* PyGILState_Release(st): the lock holder afterwards.
PyGILState_Release(t, st) == IF st = "UNLOCKED" THEN NoThread ELSE gil
\* PyEval_SaveThread: the lock holder afterwards.
PyEval_SaveThread(t) == NoThread
\* Buffers Py_DecodeLocale can still allocate.
FreeBufs == (1..MaxBufs) \ rawBufs
NewBuf == CHOOSE b \in FreeBufs : \A c \in FreeBufs : b <= c

\* strtok_r(s, ":"): the non-empty stretches between colons, in order.
RECURSIVE Strtok(_, _, _)
Strtok(s, cur, acc) ==
  IF s = <<>> THEN (IF cur = <<>> THEN acc ELSE Append(acc, cur))
  ELSE IF Head(s) = ":"
       THEN Strtok(Tail(s), <<>>, IF cur = <<>> THEN acc ELSE Append(acc, cur))
       ELSE Strtok(Tail(s), Append(cur, Head(s)), acc)
Tokens(path) == Strtok(path, <<>>, <<>>)

\* The loop stops at the first token that fails to decode (break instead of
\* continue).
AppendedPaths_StopAtFailure(toks, decoded, n) ==
  LET ok == {i \in 1..n : \A j \in 1..i : j \in decoded}
  IN [i \in 1..Cardinality(ok) |-> toks[i]]
\* The loop of lines 113-125 over tokens 1..n: the entries appended, where
\* decoded is the set of token indices Py_DecodeLocale succeeds on.
RECURSIVE AppendedPaths(_, _, _)
AppendedPaths(toks, decoded, n) ==
  IF n = 0 THEN <<>>
  ELSE IF n \in decoded
       THEN Append(AppendedPaths(toks, decoded, n - 1), toks[n])
       ELSE AppendedPaths(toks, decoded, n - 1)

\* --------------------------------------------------------------- returns
\* A call of thread t returns value v, leaving e in its error slot. Its
\* parameters go out of scope; the caller still knows whether it passed a slot.
Returns(t, label, v, e) ==
  /\ pc' = [pc EXCEPT ![t] = label]
  /\ args' = [args EXCEPT ![t] = [NoArgs EXCEPT !.errorOut = args[t].errorOut]]
  /\ ret' = [ret EXCEPT ![t] = v]
  /\ err' = [err EXCEPT ![t] = e]
  /\ call' = [call EXCEPT ![t] = NoCall]

\* Thread t moves on to label inside its call.
Goes(t, label) ==
  /\ pc' = [pc EXCEPT ![t] = label]
  /\ UNCHANGED <<args, ret, err, call>>

\* The flag test left out: initialize always configures and starts up.
AlreadyInitialized_Untested == FALSE
\* Line 76: initialize's test of the initialized flag.
AlreadyInitialized == s_pythonInitialized
\* The NULL test left out: every call constructs.
InstanceMissing_Always == TRUE
\* Lines 15, 156 and 158: the NULL test that decides whether to construct.
InstanceMissing == s_novinBridgeInstance = NULL

\* ------------------------------------------------ novin_python_initialize
\* Lines 76-78: already initialized, return true at once.
InitializeAlready(t) ==
  /\ pc[t] = "idle" /\ NoLifecycleCall
  /\ AlreadyInitialized
  /\ \E home \in PythonHomes, path \in PythonPaths :
       Returns(t, "init_ret", RetTrue, err[t])
  /\ UNCHANGED <<statics, interp, gilState>>

\* Lines 76-87: not initialized, start configuring.
InitializeBegin(t) ==
  /\ pc[t] = "idle" /\ OthersOutside(t)
  /\ ~AlreadyInitialized
  /\ inits < MaxInits
  /\ \E home \in PythonHomes, path \in PythonPaths :
       args' = [args EXCEPT ![t] = [NoArgs EXCEPT !.pythonHome = home,
                                                  !.pythonPath = path]]
  /\ pc' = [pc EXCEPT ![t] = "init_home"]
  /\ config' = NoConfig
  /\ decodedIdx' = {}
  /\ UNCHANGED <<statics, pyIsInitialized, gil, gilstateCounter, yielded,
                 liveObjs, ctorArgs, rawBufs, inits, firstConfig, gilState, ret, err, call>>

\* Lines 89-101: decode pythonHome into s_pythonHomeW and set config.home.
InitHome(t) ==
  /\ pc[t] = "init_home"
  /\ IF args[t].pythonHome # NullStr /\ args[t].pythonHome # ""
     THEN \/ \* Py_DecodeLocale returns NULL
             /\ s_pythonHomeW' = NULL
             /\ config' = NoConfig
             /\ Returns(t, "init_ret", RetFalse, err[t])
             /\ UNCHANGED rawBufs
          \/ \* decoded, PyConfig_SetString fails
             /\ FreeBufs # {}
             /\ s_pythonHomeW' = NewBuf
             /\ rawBufs' = rawBufs \cup {NewBuf}
             /\ config' = NoConfig
             /\ Returns(t, "init_ret", RetFalse, err[t])
          \/ \* decoded and set
             /\ FreeBufs # {}
             /\ s_pythonHomeW' = NewBuf
             /\ rawBufs' = rawBufs \cup {NewBuf}
             /\ config' = [config EXCEPT !.home = args[t].pythonHome]
             /\ Goes(t, "init_path")
     ELSE /\ Goes(t, "init_path")
          /\ UNCHANGED <<s_pythonHomeW, rawBufs, config>>
  /\ UNCHANGED <<s_pythonInitialized, s_novinBridgeInstance, s_pythonPathW,
                 s_mainThreadState, pyIsInitialized, gil, gilstateCounter,
                 yielded, liveObjs, ctorArgs, decodedIdx, inits, firstConfig,
                 gilState>>

\* Lines 103-127: split pythonPath at colons and append each decoded entry.
InitPath(t) ==
  /\ pc[t] = "init_path"
  /\ IF args[t].pythonPath # NullPath /\ Len(args[t].pythonPath) > 0
     THEN LET toks == Tokens(args[t].pythonPath) IN
          \/ \* strdup(pythonPath) returns NULL
             /\ config' = NoConfig
             /\ decodedIdx' = {}
             /\ Returns(t, "init_ret", RetFalse, err[t])
          \/ \* PyWideStringList_Append fails on some decoded entry
             /\ toks # <<>>
             /\ config' = NoConfig
             /\ decodedIdx' = {}
             /\ Returns(t, "init_ret", RetFalse, err[t])
          \/ \* every append succeeds
             \E decoded \in SUBSET (1..Len(toks)) :
               /\ config' = [config EXCEPT !.module_search_paths =
                               AppendedPaths(toks, decoded, Len(toks))]
               /\ decodedIdx' = decoded
               /\ Goes(t, "init_start")
     ELSE /\ Goes(t, "init_start")
          /\ UNCHANGED <<config, decodedIdx>>
  /\ UNCHANGED <<statics, pyIsInitialized, gil, gilstateCounter, yielded,
                 liveObjs, ctorArgs, rawBufs, inits, firstConfig, gilState>>

\* Lines 129-135: Py_InitializeFromConfig; the caller holds the lock on success.
InitStart(t) ==
  /\ pc[t] = "init_start"
  /\ \/ \* start-up fails
        /\ config' = NoConfig
        /\ Returns(t, "init_ret", RetFalse, err[t])
        /\ UNCHANGED <<pyIsInitialized, gil, inits>>
     \/ \* start-up succeeds
        /\ pyIsInitialized' = TRUE
        /\ gil' = t
        /\ inits' = inits + 1
        /\ config' = NoConfig
        /\ Goes(t, "init_save")
  /\ decodedIdx' = {}
  /\ UNCHANGED <<statics, gilstateCounter, yielded, liveObjs, ctorArgs, rawBufs,
                 firstConfig, gilState>>

\* The thread state is not kept.
SavedThreadState_Dropped(t) == NoThread
\* Line 138: what s_mainThreadState holds after PyEval_SaveThread.
SavedThreadState(t) == t

\* Lines 137-140: save the thread state (dropping the lock), set the flag.
InitSave(t) ==
  /\ pc[t] = "init_save"
  /\ s_mainThreadState' = SavedThreadState(t)
  /\ gil' = PyEval_SaveThread(t)
  /\ s_pythonInitialized' = TRUE
  /\ firstConfig' = NoFirstCall
  /\ Returns(t, "init_ret", RetTrue, err[t])
  /\ UNCHANGED <<s_novinBridgeInstance, s_pythonHomeW, s_pythonPathW,
                 pyIsInitialized, gilstateCounter, yielded, liveObjs, ctorArgs,
                 rawBufs, config, decodedIdx, inits, gilState>>

\* ------------------------------------------- novin_python_process_request
PrInputs == [requestJson : RequestJsons, clientId : ClientIds,
             brandConfigJson : BrandConfigs, errorOut : BOOLEAN]
PrArgs(in) == [NoArgs EXCEPT !.requestJson = in.requestJson,
                             !.clientId = in.clientId,
                             !.brandConfigJson = in.brandConfigJson,
                             !.errorOut = in.errorOut]

\* A failing exit of process_request after the lock was taken: release the
\* lock, store the message, return NULL.
PrFail(t, msg, memOk) ==
  /\ gil' = PyGILState_Release(t, gilState[t])
  /\ gilstateCounter' = [gilstateCounter EXCEPT ![t] = @ - 1]
  /\ gilState' = [gilState EXCEPT ![t] = "none"]
  /\ Returns(t, "pr_ret", NullStr, WriteError(args[t].errorOut, msg, memOk, err[t]))

\* Lines 147-152: the runtime is not initialized.
ProcessRequestNotInit(t) ==
  /\ pc[t] = "idle" /\ NoLifecycleCall
  /\ ~s_pythonInitialized
  /\ \E in \in PrInputs, memOk \in BOOLEAN :
       /\ pc' = [pc EXCEPT ![t] = "pr_ret"]
       /\ args' = [args EXCEPT ![t] = [NoArgs EXCEPT !.errorOut = in.errorOut]]
       /\ ret' = [ret EXCEPT ![t] = NullStr]
       /\ err' = [err EXCEPT ![t] =
                    WriteError(in.errorOut, MsgNotInitialized, memOk, err[t])]
  /\ UNCHANGED <<statics, interp, gilState, call>>

\* Line 147: the runtime is initialized, the call goes on to take the lock.
ProcessRequestBegin(t) ==
  /\ pc[t] = "idle" /\ NoLifecycleCall
  /\ s_pythonInitialized
  /\ \E in \in PrInputs : args' = [args EXCEPT ![t] = PrArgs(in)]
  /\ pc' = [pc EXCEPT ![t] = "pr_gil"]
  /\ UNCHANGED <<statics, interp, gilState, ret, err, call>>

\* Lines 154-157 and 15-17: PyGILState_Ensure (blocks while another thread
\* holds the lock), then the two NULL tests of s_novinBridgeInstance.
PrTakeLock(t) ==
  /\ pc[t] = "pr_gil"
  /\ gil \in {NoThread, t}
  /\ gilState' = [gilState EXCEPT ![t] = PyGILState_Ensure(t)]
  /\ gilstateCounter' = [gilstateCounter EXCEPT ![t] = @ + 1]
  /\ gil' = PyGILState_Ensure_Holder(t)
  /\ pc' = [pc EXCEPT ![t] = IF InstanceMissing
                             THEN "ens_import" ELSE "pr_getattr"]
  /\ UNCHANGED <<statics, pyIsInitialized, yielded, liveObjs, ctorArgs, rawBufs,
                 config, decodedIdx, inits, args, ret, err, call>>

PrEnsure(t) == PrTakeLock(t) /\ UNCHANGED firstConfig

\* The same step with the history variable firstConfig kept: it records the
\* brandConfigJson of the first call to take the lock since initialize
\* returned true.
PrEnsureRecorded(t) ==
  /\ PrTakeLock(t)
  /\ firstConfig' = IF firstConfig = NoFirstCall
                    THEN args[t].brandConfigJson ELSE firstConfig

\* Collaborator code runs inside PyImport_Import and PyObject_CallObject; the
\* interpreter may hand the lock to another thread there and take it back.
YieldPcs == {"ens_import", "ens_ctor", "pr_call"}
Running(t) == gil = t /\ t \notin yielded

GilYield(t) ==
  /\ pc[t] \in YieldPcs /\ Running(t)
  /\ gil' = NoThread
  /\ yielded' = yielded \cup {t}
  /\ UNCHANGED <<statics, pyIsInitialized, gilstateCounter, liveObjs, ctorArgs, rawBufs, config, decodedIdx, inits, firstConfig, locals>>

GilResume(t) ==
  /\ t \in yielded /\ gil = NoThread
  /\ gil' = t
  /\ yielded' = yielded \ {t}
  /\ UNCHANGED <<statics, pyIsInitialized, gilstateCounter, liveObjs, ctorArgs, rawBufs, config, decodedIdx, inits, firstConfig, locals>>

\* json.loads(s): the object the JSON text s describes.
JsonLoads(s) == <<"parsed", s>>
\* The tuple built from the first call's brandConfigJson, whoever constructs.
CtorArgs_OfFirstCall(brandConfigJson, parsed) ==
  IF firstConfig \notin {NoFirstCall, NullStr, ""} /\ parsed
  THEN <<JsonLoads(firstConfig)>>
  ELSE <<>>
\* Lines 39-61: the constructor's argument tuple; parsed tells whether the
\* json module was imported and json.loads returned an object.
CtorArgs(brandConfigJson, parsed) ==
  IF brandConfigJson # NullStr /\ brandConfigJson # "" /\ parsed
  THEN <<JsonLoads(brandConfigJson)>>
  ELSE <<>>

\* Lines 19-61 of ensure_bridge_initialized: import the module, get the class,
\* build the constructor's argument tuple.
EnsImport(t) ==
  /\ pc[t] = "ens_import" /\ Running(t)
  /\ \/ \* the import or the class lookup fails
        /\ pc' = [pc EXCEPT ![t] = "ens_failed"]
        /\ UNCHANGED call
     \/ \* the class is found
        /\ \E parsed \in BOOLEAN :
             call' = [call EXCEPT ![t] =
                        [args |-> CtorArgs(args[t].brandConfigJson, parsed),
                         result |-> NoResult]]
        /\ pc' = [pc EXCEPT ![t] = "ens_ctor"]
  /\ UNCHANGED <<statics, interp, args, gilState, ret, err>>

\* The object PyObject_CallObject(class, args) creates: one no earlier
\* start-up of the interpreter and no live instance of this one has.
NewObj == (inits - 1) * Cardinality(Threads) + Cardinality(liveObjs) + 1

\* Line 72: what s_novinBridgeInstance holds after a successful constructor.
StoreInstance(instance) == instance

\* What is known of the instances in objs.
Surviving(objs) == [o \in objs |-> ctorArgs[o]]

\* Lines 63-72: call the constructor with the tuple, store the instance.
EnsCtor(t) ==
  /\ pc[t] = "ens_ctor" /\ Running(t)
  /\ \/ \* the constructor raises
        /\ pc' = [pc EXCEPT ![t] = "ens_failed"]
        /\ UNCHANGED <<s_novinBridgeInstance, liveObjs, ctorArgs>>
     \/ \* the constructor returns a new instance
        /\ liveObjs' = liveObjs \cup {NewObj}
        /\ ctorArgs' = [o \in liveObjs \cup {NewObj} |->
                          IF o = NewObj THEN call[t].args ELSE ctorArgs[o]]
        /\ s_novinBridgeInstance' = StoreInstance(NewObj)
        /\ pc' = [pc EXCEPT ![t] = "pr_getattr"]
  /\ call' = [call EXCEPT ![t] = NoCall]
  /\ UNCHANGED <<s_pythonInitialized, s_pythonHomeW, s_pythonPathW,
                 s_mainThreadState, pyIsInitialized, gil, gilstateCounter,
                 yielded, rawBufs, config, decodedIdx, inits, firstConfig, args, gilState,
                 ret, err>>

\* Lines 158-165, reached when ensure_bridge_initialized returned early.
EnsFailed(t) ==
  /\ pc[t] = "ens_failed" /\ Running(t)
  /\ IF InstanceMissing
     THEN \E memOk \in BOOLEAN : PrFail(t, MsgBridgeInitFailed, memOk)
     ELSE /\ Goes(t, "pr_getattr")
          /\ UNCHANGED <<gil, gilstateCounter, gilState>>
  /\ UNCHANGED <<statics, pyIsInitialized, yielded, liveObjs, ctorArgs, rawBufs,
                 config, decodedIdx, inits, firstConfig>>

\* Lines 167-175: look the process_request method up.
PrGetAttr(t) ==
  /\ pc[t] = "pr_getattr" /\ Running(t)
  /\ \/ \E memOk \in BOOLEAN : PrFail(t, MsgMethodMissing, memOk)
     \/ /\ Goes(t, "pr_call")
        /\ UNCHANGED <<gil, gilstateCounter, gilState>>
  /\ UNCHANGED <<statics, pyIsInitialized, yielded, liveObjs, ctorArgs, rawBufs,
                 config, decodedIdx, inits, firstConfig>>

\* PyUnicode_FromString(s): the str object holding the text of C string s.
PyUnicode_FromString(s) == <<"str", s>>
\* Every call passes the default, whatever clientId the caller gave.
ActualClientId_AlwaysDefault(clientId) == DefaultClientId
\* Line 179: const char *actualClientId = clientId ? clientId : "ios-client".
ActualClientId(clientId) ==
  IF clientId = NullStr THEN DefaultClientId ELSE clientId

\* Lines 177-184: build the two-element tuple and call the method; a NULL
\* result means the collaborator raised.
PrCall(t) ==
  /\ pc[t] = "pr_call" /\ Running(t)
  /\ LET tuple == <<PyUnicode_FromString(args[t].requestJson),
                    PyUnicode_FromString(ActualClientId(args[t].clientId))>>
     IN /\ \E r \in PyResults \cup {NotAStr, NoResult} :
             call' = [call EXCEPT ![t] = [args |-> tuple, result |-> r]]
        /\ pc' = [pc EXCEPT ![t] = "pr_convert"]
        /\ UNCHANGED <<gil, gilstateCounter, gilState, args, ret, err>>
  /\ UNCHANGED <<statics, pyIsInitialized, yielded, liveObjs, ctorArgs, rawBufs,
                 config, decodedIdx, inits, firstConfig>>

\* The bytes a C function reads at a char pointer: those before the first zero.
RECURSIVE UpToNul(_)
UpToNul(b) ==
  IF b = <<>> \/ Head(b) = Nul THEN <<>> ELSE <<Head(b)>> \o UpToNul(Tail(b))
\* The string made of the bytes b.
RECURSIVE Chars(_)
Chars(b) == IF b = <<>> THEN "" ELSE Head(b) \o Chars(Tail(b))
\* Lines 195 and 205: strdup reads the buffer PyUnicode_AsUTF8 points at.
StrdupUTF8(result) == Chars(UpToNul(result))
\* The strings a successful call can return.
Responses == {StrdupUTF8(r) : r \in PyResults}

\* Lines 186-211: test the result, convert it, duplicate it, release the lock.
PrConvert(t) ==
  /\ pc[t] = "pr_convert" /\ Running(t)
  /\ \/ \* the collaborator raised
        /\ call[t].result = NoResult
        /\ \E memOk \in BOOLEAN : PrFail(t, MsgProcessingFailed, memOk)
     \/ \* PyUnicode_AsUTF8 returns NULL
        /\ call[t].result = NotAStr
        /\ \E memOk \in BOOLEAN : PrFail(t, MsgEncodingFailed, memOk)
     \/ \* strdup of the response returns NULL
        /\ call[t].result \in PyResults
        /\ \E memOk \in BOOLEAN : PrFail(t, MsgOutOfMemory, memOk)
     \/ \* success
        /\ call[t].result \in PyResults
        /\ gil' = PyGILState_Release(t, gilState[t])
        /\ gilstateCounter' = [gilstateCounter EXCEPT ![t] = @ - 1]
        /\ gilState' = [gilState EXCEPT ![t] = "none"]
        /\ Returns(t, "pr_ret", StrdupUTF8(call[t].result), err[t])
  /\ UNCHANGED <<statics, pyIsInitialized, yielded, liveObjs, ctorArgs, rawBufs,
                 config, decodedIdx, inits, firstConfig>>

\* ------------------------------------------------- novin_python_finalize
\* The test left out: finalize always tears down.
FinalizeSkips_Never == FALSE
\* Line 221: finalize's test of the initialized flag.
FinalizeSkips == ~s_pythonInitialized

\* Lines 221-223: not initialized, nothing to do.
FinalizeNoop(t) ==
  /\ pc[t] = "idle" /\ OthersOutside(t)
  /\ FinalizeSkips
  /\ Returns(t, "fin_ret", RetVoid, err[t])
  /\ UNCHANGED <<statics, interp, gilState>>

\* Line 221: the runtime is initialized, finalize goes on.
FinalizeBegin(t) ==
  /\ pc[t] = "idle" /\ OthersOutside(t)
  /\ ~FinalizeSkips
  /\ pc' = [pc EXCEPT ![t] = "fin_restore"]
  /\ UNCHANGED <<statics, interp, args, gilState, ret, err, call>>

\* The saved thread state is restored but kept.
RestoredThreadState_Kept == s_mainThreadState
\* Line 227: what s_mainThreadState holds after the restore.
RestoredThreadState == NoThread

\* Lines 225-228: take the saved thread state (and with it the lock) back.
FinRestore(t) ==
  /\ pc[t] = "fin_restore"
  /\ IF s_mainThreadState # NoThread
     THEN /\ gil = NoThread
          /\ gil' = t
          /\ s_mainThreadState' = RestoredThreadState
     ELSE UNCHANGED <<gil, s_mainThreadState>>
  /\ pc' = [pc EXCEPT ![t] = "fin_decref"]
  /\ UNCHANGED <<s_pythonInitialized, s_novinBridgeInstance, s_pythonHomeW,
                 s_pythonPathW, pyIsInitialized, gilstateCounter, yielded,
                 liveObjs, ctorArgs, rawBufs, config, decodedIdx, inits, firstConfig, args,
                 gilState, ret, err, call>>

\* The reference dropped but the static left pointing at the dead object.
ClearInstance_Dangling == s_novinBridgeInstance
\* Line 232: what s_novinBridgeInstance holds after finalize dropped it.
ClearInstance == NULL

\* Lines 230-233: drop the instance reference between Ensure and Release.
FinDecref(t) ==
  /\ pc[t] = "fin_decref"
  /\ gil \in {NoThread, t}
  /\ liveObjs' = liveObjs \ {s_novinBridgeInstance}
  /\ ctorArgs' = Surviving(liveObjs \ {s_novinBridgeInstance})
  /\ s_novinBridgeInstance' = ClearInstance
  /\ gil' = PyGILState_Release(t, PyGILState_Ensure(t))
  /\ pc' = [pc EXCEPT ![t] = "fin_pyfinalize"]
  /\ UNCHANGED <<s_pythonInitialized, s_pythonHomeW, s_pythonPathW,
                 s_mainThreadState, pyIsInitialized, gilstateCounter, yielded,
                 rawBufs, config, decodedIdx, inits, firstConfig, args, gilState,
                 ret, err, call>>

\* Line 235: Py_Finalize destroys the interpreter, its objects and its lock.
FinPyFinalize(t) ==
  /\ pc[t] = "fin_pyfinalize"
  /\ pyIsInitialized' = FALSE
  /\ liveObjs' = {}
  /\ ctorArgs' = Surviving({})
  /\ gil' = NoThread
  /\ pc' = [pc EXCEPT ![t] = "fin_flag"]
  /\ UNCHANGED <<statics, gilstateCounter, yielded, rawBufs, config, decodedIdx,
                 inits, firstConfig, args, gilState, ret, err, call>>

\* Line 236.
FinFlag(t) ==
  /\ pc[t] = "fin_flag"
  /\ s_pythonInitialized' = FALSE
  /\ firstConfig' = NoFirstCall
  /\ pc' = [pc EXCEPT ![t] = "fin_free"]
  /\ UNCHANGED <<s_novinBridgeInstance, s_pythonHomeW, s_pythonPathW,
                 s_mainThreadState, pyIsInitialized, gil, gilstateCounter,
                 yielded, liveObjs, ctorArgs, rawBufs, config, decodedIdx, inits, args,
                 gilState, ret, err, call>>

\* Lines 238-245: free the retained configuration buffers.
FinFree(t) ==
  /\ pc[t] = "fin_free"
  /\ rawBufs' = rawBufs \ {s_pythonHomeW, s_pythonPathW}
  /\ s_pythonHomeW' = NULL
  /\ s_pythonPathW' = NULL
  /\ Returns(t, "fin_ret", RetVoid, err[t])
  /\ UNCHANGED <<s_pythonInitialized, s_novinBridgeInstance, s_mainThreadState,
                 pyIsInitialized, gil, gilstateCounter, yielded, liveObjs, ctorArgs,
                 config, decodedIdx, inits, firstConfig, gilState>>

\* ----------------------------------------------- novin_python_free_string
\* The caller takes the result and frees every string it was handed; the
\* thread is then ready for its next call.
FreeStrings(t) ==
  /\ pc[t] \in RetPcs
  /\ pc' = [pc EXCEPT ![t] = "idle"]
  /\ args' = [args EXCEPT ![t] = NoArgs]
  /\ ret' = [ret EXCEPT ![t] = NoRet]
  /\ err' = [err EXCEPT ![t] = Untouched]
  /\ UNCHANGED <<statics, interp, gilState, call>>

\* ------------------------------------------------------------ the system
Next ==
  \E t \in Threads :
    \/ InitializeAlready(t)
    \/ InitializeBegin(t)
    \/ InitHome(t)
    \/ InitPath(t)
    \/ InitStart(t)
    \/ InitSave(t)
    \/ ProcessRequestNotInit(t)
    \/ ProcessRequestBegin(t)
    \/ PrEnsure(t)
    \/ GilYield(t)
    \/ GilResume(t)
    \/ EnsImport(t)
    \/ EnsCtor(t)
    \/ EnsFailed(t)
    \/ PrGetAttr(t)
    \/ PrCall(t)
    \/ PrConvert(t)
    \/ FinalizeNoop(t)
    \/ FinalizeBegin(t)
    \/ FinRestore(t)
    \/ FinDecref(t)
    \/ FinPyFinalize(t)
    \/ FinFlag(t)
    \/ FinFree(t)
    \/ FreeStrings(t)

Spec == Init /\ [][Next]_vars

\* The system with the history variable firstConfig kept.
NextFirstCall ==
  \E t \in Threads :
    \/ InitializeAlready(t)
    \/ InitializeBegin(t)
    \/ InitHome(t)
    \/ InitPath(t)
    \/ InitStart(t)
    \/ InitSave(t)
    \/ ProcessRequestNotInit(t)
    \/ ProcessRequestBegin(t)
    \/ PrEnsureRecorded(t)
    \/ GilYield(t)
    \/ GilResume(t)
    \/ EnsImport(t)
    \/ EnsCtor(t)
    \/ EnsFailed(t)
    \/ PrGetAttr(t)
    \/ PrCall(t)
    \/ PrConvert(t)
    \/ FinalizeNoop(t)
    \/ FinalizeBegin(t)
    \/ FinRestore(t)
    \/ FinDecref(t)
    \/ FinPyFinalize(t)
    \/ FinFlag(t)
    \/ FinFree(t)
    \/ FreeStrings(t)

SpecFirstCall == Init /\ [][NextFirstCall]_vars

\* ================================================================ claims
\* Thread t starts a process_request call in this step.
PrStarts(t) == pc[t] = "idle" /\ pc'[t] \in PrPcs \cup {"pr_ret"}
\* Thread t starts an initialize call in this step.
InitStarts(t) == pc[t] = "idle" /\ pc'[t] \in InitPcs \cup {"init_ret"}
\* Thread t takes a step of its call.
Steps(t) == pc'[t] # pc[t]

\* C1: a process_request call made while the runtime is not initialized
\* returns NULL at once, leaves the 'not initialized' message in the error
\* slot if one was given (and writes nothing otherwise), does not take the
\* interpreter lock, does not touch the collaborator and changes no bridge
\* state.
C1_NotInitializedRejected ==
  [][\A t \in Threads :
       (PrStarts(t) /\ ~s_pythonInitialized)
       => /\ pc'[t] = "pr_ret"
          /\ ret'[t] = NullStr
          /\ err'[t] = (IF args'[t].errorOut THEN MsgNotInitialized ELSE Untouched)
          /\ gil' = gil
          /\ gilstateCounter' = gilstateCounter
          /\ UNCHANGED <<statics, pyIsInitialized, liveObjs, rawBufs, config,
                         inits>>]_vars

\* C2: the interpreter lock is released on every exit path. A thread that is
\* outside the bridge (after initialize, process_request or finalize returned
\* in any way) holds the lock not at all and has no PyGILState_Ensure
\* outstanding; inside process_request exactly one Ensure is outstanding once
\* the lock was taken; and the step that completes a successful initialize
\* leaves the lock with no thread.
C2_LockReleasedOnEveryExit ==
  /\ [](\A t \in Threads :
          /\ Outside(t) => (gil # t /\ gilstateCounter[t] = 0)
          /\ pc[t] = "pr_gil" => (gil # t /\ gilstateCounter[t] = 0)
          /\ pc[t] \in PrPcs \ {"pr_gil"} => gilstateCounter[t] = 1)
  /\ [][\A t \in Threads :
          (pc[t] = "init_save" /\ pc'[t] = "init_ret") => gil' = NoThread]_vars

\* C2 witness: a call left through the EncodingFailed exit, a call of the
\* other thread being under way.
C2_Witness ==
  \E t \in Threads, u \in Threads :
    /\ pc[t] = "pr_ret" /\ err[t] = MsgEncodingFailed
    /\ pc[u] = "pr_call" /\ gil = u

\* C3: when a process_request call with an error slot has returned, either it
\* returned a string and the slot is untouched, or it returned NULL and the
\* slot holds a non-null, non-empty message.
C3_ResultXorError ==
  \A t \in Threads :
    (pc[t] = "pr_ret" /\ args[t].errorOut)
    => \/ ret[t] # NullStr /\ err[t] = Untouched
       \/ ret[t] = NullStr /\ err[t] \notin {Untouched, NullStr, ""}

\* C4: once s_novinBridgeInstance is set, a process_request call that finds it
\* set never enters the construction code, and the static keeps pointing at
\* the same object until finalize's release step clears it.
C4_InstanceNeverReplaced ==
  [][/\ \A t \in Threads :
          (pc[t] = "pr_gil" /\ Steps(t) /\ s_novinBridgeInstance # NULL)
          => pc'[t] = "pr_getattr"
     /\ (s_novinBridgeInstance # NULL
         /\ s_novinBridgeInstance' # s_novinBridgeInstance)
        => \E t \in Threads : pc[t] = "fin_decref" /\ Steps(t)]_vars

\* C5: while the interpreter runs, the constructor has completed successfully
\* at most once, and the one instance it made is the one the static holds:
\* none was overwritten or lost.
C5_ConstructedAtMostOnce ==
  /\ Cardinality(liveObjs) <= 1
  /\ liveObjs \subseteq {s_novinBridgeInstance}

\* C6: an initialize call made while the runtime is initialized returns true
\* at once and changes nothing: neither the statics (flag, instance, retained
\* buffers, saved thread state) nor the interpreter (no second start-up, no
\* configuration built, lock untouched).
C6_InitializeIdempotent ==
  [][\A t \in Threads :
       (InitStarts(t) /\ s_pythonInitialized)
       => /\ pc'[t] = "init_ret"
          /\ ret'[t] = RetTrue
          /\ UNCHANGED <<statics, interp>>]_vars

\* C6 witness: thread t's initialize returned true while the thread state
\* saved is another thread's, so t's call took the already-initialized path,
\* with an instance in place.
C6_Witness ==
  \E t \in Threads :
    /\ pc[t] = "init_ret" /\ ret[t] = RetTrue
    /\ s_mainThreadState \notin {t, NoThread}
    /\ s_novinBridgeInstance # NULL

\* C7: the step that completes finalize leaves the runtime not initialized,
\* the instance unset, the saved thread state cleared, no configuration buffer
\* retained and the interpreter gone; the step that completes a later
\* successful initialize leaves the instance unset (construction is lazy
\* again); and an instance the static holds is always a live object made
\* since the latest start-up, never one of an earlier start-up.
C7_FinalizeResets ==
  /\ [][\A t \in Threads :
          (pc[t] = "fin_free" /\ pc'[t] = "fin_ret")
          => /\ ~s_pythonInitialized'
             /\ s_novinBridgeInstance' = NULL
             /\ s_mainThreadState' = NoThread
             /\ s_pythonHomeW' = NULL /\ s_pythonPathW' = NULL
             /\ ~pyIsInitialized' /\ liveObjs' = {}]_vars
  /\ [][\A t \in Threads :
          (pc[t] = "init_save" /\ pc'[t] = "init_ret")
          => (s_pythonInitialized' /\ s_novinBridgeInstance' = NULL)]_vars
  /\ [](s_novinBridgeInstance # NULL
        => /\ s_pythonInitialized
           /\ s_novinBridgeInstance \in liveObjs
           /\ s_novinBridgeInstance > (inits - 1) * Cardinality(Threads))

\* C7 witness: after a finalize and a second successful initialize, a call has
\* constructed an instance.
C7_Witness ==
  /\ inits = 2 /\ s_pythonInitialized
  /\ s_novinBridgeInstance # NULL
  /\ \E t \in Threads : pc[t] = "pr_ret" /\ ret[t] \in Responses

\* C8: a call whose construction attempt failed returns NULL with the
\* BridgeInitFailed message and leaves the instance unset; and every call
\* that finds the runtime initialized and the instance unset attempts the
\* construction (nothing remembers an earlier failure).
C8_ConstructionFailureRetried ==
  [][\A t \in Threads :
       /\ (pc[t] = "ens_failed" /\ Steps(t))
          => /\ pc'[t] = "pr_ret"
             /\ ret'[t] = NullStr
             /\ args[t].errorOut => err'[t] = MsgBridgeInitFailed
             /\ s_novinBridgeInstance' = NULL
       /\ (pc[t] = "pr_gil" /\ Steps(t) /\ s_novinBridgeInstance = NULL)
          => pc'[t] = "ens_import"]_vars

C10_FailedInitializeLeavesNothing ==
  \A t \in Threads :
    (pc[t] = "init_ret" /\ ret[t] = RetFalse)
    => /\ ~s_pythonInitialized
       /\ s_pythonHomeW = NULL /\ s_pythonPathW = NULL
       /\ config = NoConfig

\* C11: every string the collaborator's process_request returns reaches the
\* caller byte for byte, same length and same bytes, a zero byte included.
C11_ResultByteForByte ==
  [][\A t \in Threads :
       pc[t] = "pr_convert" /\ pc'[t] = "pr_ret" /\ ret'[t] # NullStr
         => /\ ret'[t] = Chars(call[t].result)
            /\ Len(ret'[t]) = Len(Chars(call[t].result))]_vars

\* C12 as stated: whenever a configuration is passed to the constructor of the
\* instance held in s_novinBridgeInstance, it is the one parsed from the
\* brandConfigJson of the first call since initialize, also when a later call
\* performed the construction.
C12_FirstCallConfigUsed ==
  s_novinBridgeInstance # NULL /\ ctorArgs[s_novinBridgeInstance] # <<>>
    => ctorArgs[s_novinBridgeInstance] = <<<<"parsed", firstConfig>>>>
\* C12, amended: the instance is constructed from the brandConfigJson of the
\* call that performs the construction (the object parsed from it, or no
\* argument); a call that finds the instance set goes straight to the method
\* lookup, and no step other than a constructor call changes what the
\* instance was constructed with.
C12_ConstructingCallConfigUsed ==
  [][\A t \in Threads :
       /\ pc[t] = "ens_ctor" /\ pc'[t] = "pr_getattr"
            => /\ s_novinBridgeInstance' \in DOMAIN ctorArgs'
               /\ IF args[t].brandConfigJson \in {NullStr, ""}
                  THEN ctorArgs'[s_novinBridgeInstance'] = <<>>
                  ELSE ctorArgs'[s_novinBridgeInstance'] \in
                         {<<>>, <<<<"parsed", args[t].brandConfigJson>>>>}
       /\ pc[t] = "pr_gil" /\ s_novinBridgeInstance # NULL /\ Steps(t)
            => pc'[t] = "pr_getattr"
       /\ pc[t] \in PrPcs \ {"ens_ctor"} /\ Steps(t)
            => UNCHANGED <<s_novinBridgeInstance, ctorArgs>>]_vars
\* The first call gave no configuration and constructed nothing; the instance
\* was constructed by a later call from that call's "{A}".
C12_Witness ==
  /\ firstConfig = NullStr
  /\ s_novinBridgeInstance # NULL
  /\ ctorArgs[s_novinBridgeInstance] = <<<<"parsed", "{A}">>>>

\* C13: a constructing call with a non-empty brandConfigJson invokes the
\* constructor with exactly one argument, the object parsed from that JSON;
\* the constructor gets no arguments only when brandConfigJson is NULL or "".
C13_ConstructorArguments ==
  [][\A t \in Threads :
       pc[t] = "ens_ctor" /\ Steps(t) =>
         /\ args[t].brandConfigJson \notin {NullStr, ""}
              => call[t].args = <<<<"parsed", args[t].brandConfigJson>>>>
         /\ call[t].args = <<>>
              => args[t].brandConfigJson \in {NullStr, ""}]_vars

\* The threads between PyGILState_Ensure and PyGILState_Release of
\* process_request.
BetweenAcquireAndRelease == {t \in Threads : pc[t] \in PrPcs \ {"pr_gil"}}
C16_FinalizeOrder ==
  [][\A t \in Threads :
       /\ pc[t] = "idle" /\ s_pythonInitialized /\ pc'[t] \in FinPcs \cup {"fin_ret"}
            => pc'[t] = "fin_restore" /\ UNCHANGED <<statics, interp>>
       /\ pc[t] = "fin_restore" /\ Steps(t)
            => /\ pc'[t] = "fin_decref"
               /\ s_mainThreadState # NoThread /\ s_mainThreadState' = NoThread
               /\ gil' = t
               /\ UNCHANGED <<s_pythonInitialized, s_novinBridgeInstance,
                              s_pythonHomeW, s_pythonPathW, pyIsInitialized,
                              liveObjs, rawBufs>>
       /\ pc[t] = "fin_decref" /\ Steps(t)
            => /\ pc'[t] = "fin_pyfinalize"
               /\ gil = t /\ gil' = t
               /\ s_novinBridgeInstance' = NULL
               /\ s_novinBridgeInstance \notin liveObjs'
               /\ pyIsInitialized /\ pyIsInitialized'
               /\ UNCHANGED <<s_pythonInitialized, s_mainThreadState,
                              s_pythonHomeW, s_pythonPathW, rawBufs>>
       /\ pc[t] = "fin_pyfinalize" /\ Steps(t)
            => /\ pc'[t] = "fin_flag"
               /\ gil = t
               /\ s_novinBridgeInstance = NULL
               /\ pyIsInitialized /\ ~pyIsInitialized'
               /\ s_pythonInitialized /\ s_pythonInitialized'
               /\ UNCHANGED <<statics, rawBufs>>
       /\ pc[t] = "fin_flag" /\ Steps(t)
            => /\ pc'[t] = "fin_free"
               /\ ~pyIsInitialized
               /\ s_pythonInitialized /\ ~s_pythonInitialized'
               /\ UNCHANGED <<s_novinBridgeInstance, s_mainThreadState,
                              s_pythonHomeW, s_pythonPathW, rawBufs>>
       /\ pc[t] = "fin_free" /\ Steps(t)
            => /\ pc'[t] = "fin_ret"
               /\ ~s_pythonInitialized
               /\ s_pythonHomeW' = NULL /\ s_pythonPathW' = NULL
               /\ rawBufs' = rawBufs \ {s_pythonHomeW, s_pythonPathW}
       /\ s_mainThreadState' # s_mainThreadState /\ Steps(t)
            => \/ pc[t] = "init_save" /\ s_mainThreadState = NoThread
               \/ pc[t] = "fin_restore" /\ s_mainThreadState' = NoThread]_vars
\* finalize has shut the interpreter down and cleared the flag and is about
\* to free a retained buffer.
C16_Witness ==
  \E t \in Threads :
    pc[t] = "fin_free" /\ s_pythonHomeW # NULL /\ s_pythonHomeW \in rawBufs

\* C17: finalize called while the runtime is not Initialized returns at once:
\* it touches neither the interpreter nor the lock and changes no bridge state.
C17_FinalizeNoopWhenNotInitialized ==
  [][\A t \in Threads :
       pc[t] = "idle" /\ ~s_pythonInitialized
         /\ pc'[t] \in FinPcs \cup {"fin_ret"}
         => /\ pc'[t] = "fin_ret"
            /\ UNCHANGED <<statics, pyIsInitialized, gil, gilstateCounter,
                           yielded, liveObjs, ctorArgs, rawBufs, config,
                           inits>>]_vars
\* finalize has returned after an initialize that failed and left its decoded
\* home buffer behind: the buffer is still there.
C17_Witness ==
  \E t \in Threads :
    /\ pc[t] = "fin_ret" /\ ~s_pythonInitialized
    /\ s_pythonHomeW # NULL

\* C18: no step of process_request changes the initialized flag, the saved
\* thread state or the retained buffers, and the only change it makes to the
\* instance is from unset to set.
C18_ProcessRequestFrame ==
  [][\A t \in Threads :
       (pc[t] \in PrPcs \/ PrStarts(t)) /\ Steps(t)
         => /\ UNCHANGED <<s_pythonInitialized, s_mainThreadState,
                           s_pythonHomeW, s_pythonPathW>>
            /\ \/ UNCHANGED s_novinBridgeInstance
               \/ s_novinBridgeInstance = NULL /\ s_novinBridgeInstance' # NULL]_vars

\* The colon-delimited entries of path, empty ones included.
RECURSIVE Entries(_)
Entries(path) ==
  IF \A i \in 1..Len(path) : path[i] # ":"
  THEN <<path>>
  ELSE LET k == CHOOSE i \in 1..Len(path) :
                  path[i] = ":" /\ \A j \in 1..(i - 1) : path[j] # ":"
       IN <<SubSeq(path, 1, k - 1)>> \o Entries(SubSeq(path, k + 1, Len(path)))
IsNonEmpty(e) == e # <<>>
\* The entries of es at the positions in keep, in their order.
Kept(es, keep) ==
  LET pos(i) == Cardinality({j \in keep : j <= i})
  IN [n \in 1..Cardinality(keep \cap (1..Len(es))) |->
        es[CHOOSE i \in keep : pos(i) = n]]
\* The positions among all entries of the non-empty entries that failed to
\* decode (decodedIdx numbers the non-empty entries).
FailedPositions(es) ==
  {i \in 1..Len(es) :
     /\ es[i] # <<>>
     /\ Cardinality({j \in 1..i : es[j] # <<>>}) \notin decodedIdx}
\* C19 as stated: for a non-empty pythonPath the module search path holds
\* exactly the colon-delimited entries that did not fail to decode, in their
\* original order.
C19_DecodedEntriesAppended ==
  \A t \in Threads :
    pc[t] = "init_start" /\ args[t].pythonPath \notin {NullPath, <<>>}
      => LET es == Entries(args[t].pythonPath)
         IN config.module_search_paths =
              Kept(es, (1..Len(es)) \ FailedPositions(es))
\* C19, amended: the module search path holds exactly the non-empty
\* colon-delimited entries that decoded, in their original order; an entry
\* that fails to decode is skipped, initialize goes on to start the
\* interpreter, and the entries after it are appended.
C19_NonEmptyDecodedEntriesAppended ==
  \A t \in Threads :
    pc[t] = "init_start" /\ args[t].pythonPath \notin {NullPath, <<>>}
      => config.module_search_paths =
           Kept(SelectSeq(Entries(args[t].pythonPath), IsNonEmpty), decodedIdx)
\* Of the three entries of "b:a:c" the second failed to decode; the first and
\* the third were appended and initialize goes on.
C19_Witness ==
  \E t \in Threads :
    /\ pc[t] = "init_start"
    /\ args[t].pythonPath = <<"b", ":", "a", ":", "c">>
    /\ decodedIdx = {1, 3}
    /\ config.module_search_paths = << <<"b">>, <<"c">> >>

\* C20: between lifecycle operations the instance is set only while the
\* runtime is Initialized, and the runtime is Initialized exactly when a saved
\* main thread state is held.
C20_LifecycleInvariant ==
  NoLifecycleCall =>
    /\ s_novinBridgeInstance # NULL => s_pythonInitialized
    /\ s_pythonInitialized <=> s_mainThreadState # NoThread
\* The runtime was initialized a second time and an instance constructed.
C20_Witness ==
  /\ NoLifecycleCall
  /\ inits = 2 /\ s_pythonInitialized /\ s_mainThreadState # NoThread
  /\ s_novinBridgeInstance # NULL
====
